---- MODULE Spec2Model ----
(***************************************************************************)
(* Model of src/src/main.c: main() opens the process's own symbol table    *)
(* with dlopen(NULL, RTLD_LAZY), resolves "malloc", "printf" and "free"    *)
(* with dlsym, calls them through the resolved pointers and returns.       *)
(* The platform loader (dlopen, dlsym, dlerror) and the resolved libc      *)
(* functions are the environment: their results are drawn from small sets. *)
(***************************************************************************)
EXTENDS Integers, Sequences, FiniteSets

\* ---------------------------------------------------------------- bounds
MaxAddr == 2
MaxHandle == 1
MaxBlock == 1

\* ------------------------------------------------------- program constants
NULL == 0
Uninit == -1
EXIT_SUCCESS == 0
EXIT_FAILURE == 1
MallocSize == 3

Addrs == 1..MaxAddr
Handles == 1..MaxHandle
Blocks == 1..MaxBlock

\* libc_symbols[0], [1], [2] and the names they are resolved from
SymbolIndex == {0, 1, 2}
SymbolName(i) == IF i = 0 THEN "malloc" ELSE IF i = 1 THEN "printf" ELSE "free"

LoaderOps == {"dlopen", "dlsym", "dlclose"}
Invocations == {"printf", "malloc", "free"}
Terminal == {"done", "crashed"}

VARIABLES
    pc,            \* position in main: "l9", "l14", ..., "done", "crashed"
    libc_handler,  \* void *libc_handler
    libc_symbols,  \* void *libc_symbols[3]
    malloc_fp,     \* void *(*malloc)(size_t)
    printf_fp,     \* int (*printf)(const char *restrict, ...)
    free_fp,       \* void (*free)(void *)
    dlerror_arg,   \* value of the dlerror() argument of the printf call
    a,             \* void *a
    exit_status,   \* value returned by main
    hstate,        \* loader-side state of the handle: Unopened, Open, Closed
    exportTable,   \* address the loader has for each name (NULL: absent)
    errSticky,     \* TRUE: a successful loader call keeps the last error
    dlerr,         \* process-wide diagnostic read by dlerror()
    heap,          \* state of each heap block
    out,           \* what printf wrote
    log            \* history of loader calls and invocations

vars == <<pc, libc_handler, libc_symbols, malloc_fp, printf_fp, free_fp,
          dlerror_arg, a, exit_status, hstate, exportTable, errSticky,
          dlerr, heap, out, log>>

Event(op, fn, arg, res, ok) ==
    [op |-> op, fn |-> fn, arg |-> arg, res |-> res, ok |-> ok, hs |-> hstate]

\* the diagnostic after a loader call: a failure overwrites it, a success
\* clears it or (errSticky) leaves the last error in place
DlerrAfter(ok, msg) ==
    IF ~ok THEN msg ELSE IF errSticky THEN dlerr ELSE "none"

\* %s of a null pointer prints "(null)"
FormatS(s) == IF s = "none" THEN "(null)" ELSE s

Init ==
    /\ pc = "l9"
    /\ libc_handler = Uninit
    /\ libc_symbols = [i \in SymbolIndex |-> Uninit]
    /\ malloc_fp = Uninit
    /\ printf_fp = Uninit
    /\ free_fp = Uninit
    /\ dlerror_arg = "unset"
    /\ a = Uninit
    /\ exit_status = Uninit
    /\ hstate = "Unopened"
    /\ exportTable \in [SymbolIndex -> Addrs \cup {NULL}]
    /\ errSticky \in BOOLEAN
    /\ dlerr = "none"
    /\ heap = [b \in Blocks |-> "free"]
    /\ out = <<>>
    /\ log = <<>>

\* line 9: void *libc_handler = dlopen(NULL, RTLD_LAZY);
Dlopen_OpenOnFailure ==
    /\ pc = "l9"
    /\ \E h \in Handles \cup {NULL} :
          /\ libc_handler' = h
          /\ hstate' = "Open"
          /\ dlerr' = DlerrAfter(h # NULL, "dlopen: cannot open")
          /\ log' = Append(log, Event("dlopen", NULL, NULL, h, h # NULL))
    /\ pc' = "l14"
    /\ UNCHANGED <<libc_symbols, malloc_fp, printf_fp, free_fp, dlerror_arg,
                   a, exit_status, exportTable, errSticky, heap, out>>

Dlopen ==
    /\ pc = "l9"
    /\ \E h \in Handles \cup {NULL} :
          /\ libc_handler' = h
          /\ hstate' = IF h # NULL THEN "Open" ELSE hstate
          /\ dlerr' = DlerrAfter(h # NULL, "dlopen: cannot open")
          /\ log' = Append(log, Event("dlopen", NULL, NULL, h, h # NULL))
    /\ pc' = "l14"
    /\ UNCHANGED <<libc_symbols, malloc_fp, printf_fp, free_fp, dlerror_arg,
                   a, exit_status, exportTable, errSticky, heap, out>>

\* lines 14-15: if (!libc_handler) return (EXIT_FAILURE);
CheckHandle_NoCheck ==
    /\ pc = "l14"
    /\ pc' = "l17"
    /\ UNCHANGED <<libc_handler, libc_symbols, malloc_fp, printf_fp, free_fp,
                   dlerror_arg, a, exit_status, hstate, exportTable,
                   errSticky, dlerr, heap, out, log>>

CheckHandle ==
    /\ pc = "l14"
    /\ IF libc_handler = NULL
          THEN /\ exit_status' = EXIT_FAILURE
               /\ pc' = "done"
          ELSE /\ pc' = "l17"
               /\ UNCHANGED exit_status
    /\ UNCHANGED <<libc_handler, libc_symbols, malloc_fp, printf_fp, free_fp,
                   dlerror_arg, a, hstate, exportTable, errSticky, dlerr,
                   heap, out, log>>

\* lines 17-19: libc_symbols[i] = dlsym(libc_handler, name);
Dlsym(i, at, next) ==
    /\ pc = at
    /\ LET r == exportTable[i] IN
          /\ libc_symbols' = [libc_symbols EXCEPT ![i] = r]
          /\ dlerr' = DlerrAfter(r # NULL, "dlsym: undefined symbol")
          /\ log' = Append(log, Event("dlsym", libc_handler, i, r, r # NULL))
    /\ pc' = next
    /\ UNCHANGED <<libc_handler, malloc_fp, printf_fp, free_fp, dlerror_arg,
                   a, exit_status, hstate, exportTable, errSticky, heap, out>>

DlsymMalloc == Dlsym(0, "l17", "l18")
DlsymPrintf == Dlsym(1, "l18", "l19")
DlsymFree == Dlsym(2, "l19", "l21")

\* line 21: void *(*malloc)(size_t) = libc_symbols[0];
CastMalloc ==
    /\ pc = "l21"
    /\ malloc_fp' = libc_symbols[0]
    /\ pc' = "l22"
    /\ UNCHANGED <<libc_handler, libc_symbols, printf_fp, free_fp,
                   dlerror_arg, a, exit_status, hstate, exportTable,
                   errSticky, dlerr, heap, out, log>>

\* line 22: int (*printf)(const char *restrict, ...) = libc_symbols[1];
CastPrintf ==
    /\ pc = "l22"
    /\ printf_fp' = libc_symbols[1]
    /\ pc' = "l23"
    /\ UNCHANGED <<libc_handler, libc_symbols, malloc_fp, free_fp,
                   dlerror_arg, a, exit_status, hstate, exportTable,
                   errSticky, dlerr, heap, out, log>>

\* line 23: void (*free)(void *) = libc_symbols[2];
CastFree_ThenClose ==
    /\ pc = "l23"
    /\ free_fp' = libc_symbols[2]
    /\ hstate' = "Closed"
    /\ log' = Append(log, Event("dlclose", libc_handler, NULL, NULL, TRUE))
    /\ pc' = "l25"
    /\ UNCHANGED <<libc_handler, libc_symbols, malloc_fp, printf_fp,
                   dlerror_arg, a, exit_status, exportTable, errSticky,
                   dlerr, heap, out>>

CastFree ==
    /\ pc = "l23"
    /\ free_fp' = libc_symbols[2]
    /\ pc' = "l25"
    /\ UNCHANGED <<libc_handler, libc_symbols, malloc_fp, printf_fp,
                   dlerror_arg, a, exit_status, hstate, exportTable,
                   errSticky, dlerr, heap, out, log>>

\* line 25, argument evaluation: dlerror() returns the diagnostic and clears it
CallDlerror ==
    /\ pc = "l25"
    /\ dlerror_arg' = dlerr
    /\ dlerr' = "none"
    /\ log' = Append(log, Event("dlerror", NULL, NULL, NULL, TRUE))
    /\ pc' = "l25call"
    /\ UNCHANGED <<libc_handler, libc_symbols, malloc_fp, printf_fp, free_fp,
                   a, exit_status, hstate, exportTable, errSticky, heap, out>>

\* line 25, the call: printf("Hello, World!\n%s\n", <dlerror()>);
\* a call through a null pointer traps
InvokePrintf ==
    /\ pc = "l25call"
    /\ log' = Append(log, Event("printf", printf_fp, NULL, NULL,
                                printf_fp # NULL))
    /\ IF printf_fp = NULL
          THEN /\ pc' = "crashed"
               /\ UNCHANGED out
          ELSE /\ out' = out \o <<"Hello, World!", FormatS(dlerror_arg)>>
               /\ pc' = "l26"
    /\ UNCHANGED <<libc_handler, libc_symbols, malloc_fp, printf_fp, free_fp,
                   dlerror_arg, a, exit_status, hstate, exportTable,
                   errSticky, dlerr, heap>>

\* line 26: void *a = malloc(3);
InvokeMalloc ==
    /\ pc = "l26"
    /\ IF malloc_fp = NULL
          THEN /\ log' = Append(log, Event("malloc", malloc_fp, MallocSize,
                                           NULL, FALSE))
               /\ pc' = "crashed"
               /\ UNCHANGED <<a, heap>>
          ELSE /\ \E b \in {x \in Blocks : heap[x] = "free"} \cup {NULL} :
                     /\ a' = b
                     /\ heap' = IF b = NULL THEN heap
                                ELSE [heap EXCEPT ![b] = "allocated"]
                     /\ log' = Append(log, Event("malloc", malloc_fp,
                                                 MallocSize, b, TRUE))
               /\ pc' = "l28"
    /\ UNCHANGED <<libc_handler, libc_symbols, malloc_fp, printf_fp, free_fp,
                   dlerror_arg, exit_status, hstate, exportTable, errSticky,
                   dlerr, out>>

\* line 28: free(a);
InvokeFree_Skip ==
    /\ pc = "l28"
    /\ pc' = "l29"
    /\ UNCHANGED <<libc_handler, libc_symbols, malloc_fp, printf_fp, free_fp,
                   dlerror_arg, a, exit_status, hstate, exportTable,
                   errSticky, dlerr, heap, out, log>>

InvokeFree ==
    /\ pc = "l28"
    /\ log' = Append(log, Event("free", free_fp, a, NULL, free_fp # NULL))
    /\ IF free_fp = NULL
          THEN /\ pc' = "crashed"
               /\ UNCHANGED heap
          ELSE /\ heap' = IF a = NULL THEN heap
                          ELSE [heap EXCEPT ![a] = "freed"]
               /\ pc' = "l29"
    /\ UNCHANGED <<libc_handler, libc_symbols, malloc_fp, printf_fp, free_fp,
                   dlerror_arg, a, exit_status, hstate, exportTable,
                   errSticky, dlerr, out>>

\* line 29: return (EXIT_SUCCESS);
Return_Failure ==
    /\ pc = "l29"
    /\ exit_status' = EXIT_FAILURE
    /\ pc' = "done"
    /\ UNCHANGED <<libc_handler, libc_symbols, malloc_fp, printf_fp, free_fp,
                   dlerror_arg, a, hstate, exportTable, errSticky, dlerr,
                   heap, out, log>>

Return ==
    /\ pc = "l29"
    /\ exit_status' = EXIT_SUCCESS
    /\ pc' = "done"
    /\ UNCHANGED <<libc_handler, libc_symbols, malloc_fp, printf_fp, free_fp,
                   dlerror_arg, a, hstate, exportTable, errSticky, dlerr,
                   heap, out, log>>

Next ==
    \/ Dlopen
    \/ CheckHandle
    \/ DlsymMalloc
    \/ DlsymPrintf
    \/ DlsymFree
    \/ CastMalloc
    \/ CastPrintf
    \/ CastFree
    \/ CallDlerror
    \/ InvokePrintf
    \/ InvokeMalloc
    \/ InvokeFree
    \/ Return

Spec == Init /\ [][Next]_vars

\* main runs to completion: every statement that is enabled is executed
FairSpec == Spec /\ WF_vars(Next)

\* ------------------------------------------------------------ properties
Idx(op) == {i \in DOMAIN log : log[i].op = op}
Count(op) == Cardinality(Idx(op))
InvokedEvents == SelectSeq(log, LAMBDA e : e.op \in Invocations)
InvokedOps == [i \in 1..Len(InvokedEvents) |-> InvokedEvents[i].op]
AllValid == \A i \in SymbolIndex : exportTable[i] # NULL
AllResolved == \A i \in SymbolIndex : libc_symbols[i] \in Addrs

\* C1: when main has returned, a handle that dlopen opened has been closed
\* by exactly one dlclose (no leak, no double close).
C1_ClosedExactlyOnce ==
    /\ Count("dlclose") <= 1
    /\ (pc = "done" /\ libc_handler \in Handles) =>
           (Count("dlclose") = 1 /\ hstate = "Closed")

\* C2: an address that dlsym returned as null is never invoked: every call
\* through a resolved pointer goes through a non-null pointer.
C2_NullNeverInvoked ==
    \A i \in DOMAIN log : log[i].op \in Invocations => log[i].fn # NULL

\* C3: when dlopen returned a null handle, main returns EXIT_FAILURE at once:
\* the failed dlopen is the only loader call or invocation of the run.
C3_FailedOpenReturnsAtOnce ==
    (pc # "l9" /\ libc_handler = NULL) =>
        /\ pc \in {"l14", "done"}
        /\ Len(log) = 1 /\ log[1].op = "dlopen" /\ ~log[1].ok
        /\ hstate = "Unopened"
        /\ pc = "done" => exit_status = EXIT_FAILURE

C3_Witness ==
    pc = "done" /\ libc_handler = NULL /\ exit_status = EXIT_FAILURE

\* C4: dlerror is called only directly after a loader call that failed.
C4_DlerrorOnlyAfterFailure ==
    \A i \in Idx("dlerror") :
        i > 1 /\ log[i - 1].op \in LoaderOps /\ ~log[i - 1].ok

\* C5: every dlsym is made on a handle that a preceding successful dlopen
\* left Open, and no dlsym follows a dlclose of the handle.
C5_OpenResolveClose ==
    /\ \A i \in Idx("dlsym") :
          /\ i > 1
          /\ log[1].op = "dlopen" /\ log[1].ok
          /\ log[i].fn = log[1].res
          /\ log[i].hs = "Open"
    /\ \A i \in Idx("dlsym") : \A j \in Idx("dlclose") : i < j

C5_Witness ==
    pc = "done" /\ Count("dlsym") = 3 /\ exit_status = EXIT_SUCCESS

\* C6: every call through the resolved printf, malloc and free pointers is
\* made while the handle is in state Open.
C6_InvokeWhileOpen ==
    \A i \in DOMAIN log : log[i].op \in Invocations => log[i].hs = "Open"

C6_Witness ==
    \E i \in Idx("free") : log[i].ok /\ log[i].hs = "Open"

\* C7: the handle state changes only Unopened -> Open, on a dlopen that
\* returned a handle, or Open -> Closed; Closed is never left, and no dlsym
\* is reached with the handle Closed.
HandleStep ==
    hstate' # hstate =>
        \/ /\ hstate = "Unopened" /\ hstate' = "Open"
           /\ pc = "l9" /\ libc_handler' \in Handles
        \/ hstate = "Open" /\ hstate' = "Closed"

C7_HandleStateMachine ==
    /\ [][HandleStep]_vars
    /\ [](hstate \in {"Unopened", "Open", "Closed"})
    /\ [](pc \in {"l17", "l18", "l19"} => hstate # "Closed")

C7_Witness ==
    pc = "l14" /\ hstate = "Open" /\ libc_handler \in Handles

\* C9: main terminates; when the three symbols resolve, it returns, with
\* EXIT_FAILURE exactly when dlopen returned null; it returns EXIT_SUCCESS
\* only after the three symbols were resolved and printf, malloc and free
\* were each called once, in that order.
ExitStatusOK ==
    pc = "done" =>
        /\ exit_status \in {EXIT_SUCCESS, EXIT_FAILURE}
        /\ AllValid => (exit_status = EXIT_FAILURE <=> libc_handler = NULL)
        /\ exit_status = EXIT_SUCCESS =>
              /\ AllResolved
              /\ Count("dlsym") = 3
              /\ InvokedOps = <<"printf", "malloc", "free">>
              /\ \A i \in 1..3 : InvokedEvents[i].ok

C9_TerminatesWithStatus ==
    /\ <>(pc \in Terminal)
    /\ (AllValid => <>(pc = "done"))
    /\ []ExitStatusOK

C9_Witness ==
    pc = "done" /\ exit_status = EXIT_SUCCESS /\ AllValid

\* C10: when main returns EXIT_SUCCESS, the block malloc returned has been
\* freed by exactly one free call, nothing is invoked after that free, and
\* in every run the three dlsym calls precede the first invocation.
C10_BlockFreedOnce ==
    /\ (pc = "done" /\ exit_status = EXIT_SUCCESS /\ a # NULL) =>
          /\ a \in Blocks /\ heap[a] = "freed"
          /\ Cardinality({i \in Idx("free") : log[i].arg = a /\ log[i].ok}) = 1
          /\ \A i \in Idx("malloc") : log[i].res = a =>
                \A j \in Idx("free") : i < j
    /\ \A i \in Idx("free") : \A j \in DOMAIN log :
          j > i => log[j].op \notin Invocations
    /\ \A i \in DOMAIN log : log[i].op \in Invocations =>
          \A s \in SymbolIndex :
              \E j \in Idx("dlsym") : j < i /\ log[j].arg = s

C10_Witness ==
    pc = "done" /\ exit_status = EXIT_SUCCESS /\ a \in Blocks
    /\ heap[a] = "freed"

====
